---- MODULE Spec2Model ----
(***************************************************************************)
(* Link extraction of feroxbuster: src/extractor/container.rs (Extractor)  *)
(* and src/utils.rs.                                                       *)
(*                                                                         *)
(* Strings are sequences of one-character strings, so that splitting,      *)
(* joining, prefixes and trailing slashes are computed, not assumed.       *)
(***************************************************************************)
EXTENDS Integers, Sequences, FiniteSets, Bags, TLC

VARIABLES
    path,           \* get_sub_paths_from_path: the argument
    paths,          \* get_sub_paths_from_path: the returned Vec<String>
    fn_pc,          \* "call" before the function under study ran, "ret" after
    depth_target,   \* get_current_depth: the argument
    current_depth,  \* get_current_depth: the returned usize
    config,         \* Configuration: no_recursion, add_slash, extensions (their number)
    robots_txt,     \* the "url_path" captures of the robots.txt the server holds
    scanned_urls,   \* FeroxScans, the ledger shared by all passes: a set of url strings
    tx_stats,       \* statistics channel: bag of the commands sent
    tx_reporter,    \* reporting channel: bag of the responses sent
    tx_recursion,   \* recursion channel: bag of the targets sent
    recursed,       \* bag of the calls of try_recursion (response, depth)
    requests,       \* bag of the http requests issued (make_request)
    extractor,      \* per pass, the Extractor: target, url, response, depth
    pc,             \* per pass, where extract() stands
    links,          \* per pass, the links the `for link in links` loop has yet to take
    resp,           \* per pass, the request in flight, then the response in hand
    probed,         \* bag of the responses the probes returned, as classified
    result          \* per pass, what extract() returned: "Ok", "Err" or "" (running)

fn_vars == <<path, paths, fn_pc, depth_target, current_depth>>

shared_vars == <<scanned_urls, tx_stats, tx_reporter, tx_recursion, recursed, requests, probed>>

pass_vars == <<config, robots_txt, extractor, pc, links, resp, result>>

vars == <<path, paths, fn_pc, depth_target, current_depth, config, robots_txt, scanned_urls, tx_stats, tx_reporter, tx_recursion,
          recursed, requests, probed, extractor, pc, links, resp,
          result>>

-----------------------------------------------------------------------------
(* Bounds *)

\* number of extraction passes running against the shared ledger
NumPasses == 2

\* largest number of configured file extensions
MaxExtensions == 2

\* largest number of regex captures in a response body (extract_from_body alone)
MaxCaptures == 2

\* longest path fragment handed to get_sub_paths_from_path
MaxPathLen == 6

\* longest path of the urls handed to get_current_depth
MaxDepthPathLen == 4

-----------------------------------------------------------------------------
(* Strings *)

SLASH == "/"

\* characters of the path fragments explored
PathChars == {"a", "b", SLASH}

RECURSIVE StringsUpTo(_, _)
\* every string over alphabet cs of length at most n
StringsUpTo(cs, n) ==
    IF n = 0 THEN {<<>>}
    ELSE LET shorter == StringsUpTo(cs, n - 1)
         IN  shorter \cup {Append(s, c) : s \in {t \in shorter : Len(t) = n - 1}, c \in cs}

\* str::ends_with(c)
EndsWith(s, c) == Len(s) > 0 /\ s[Len(s)] = c

\* str::starts_with(prefix)
StartsWith(s, prefix) ==
    Len(prefix) <= Len(s) /\ SubSeq(s, 1, Len(prefix)) = prefix

RECURSIVE SplitFrom(_, _, _, _)
\* str::split(sep): the pieces between separators, empty pieces included
SplitFrom(s, sep, i, cur) ==
    IF i > Len(s) THEN <<cur>>
    ELSE IF s[i] = sep THEN <<cur>> \o SplitFrom(s, sep, i + 1, <<>>)
    ELSE SplitFrom(s, sep, i + 1, Append(cur, s[i]))

Split(s, sep) == SplitFrom(s, sep, 1, <<>>)

\* Iterator::filter(|s| !s.is_empty())
NonEmpty(parts) == SelectSeq(parts, LAMBDA p : p # <<>>)

RECURSIVE JoinWith(_, _)
\* [&str]::join(sep)
JoinWith(parts, sep) ==
    IF parts = <<>> THEN <<>>
    ELSE IF Len(parts) = 1 THEN parts[1]
    ELSE parts[1] \o <<sep>> \o JoinWith(Tail(parts), sep)

\* Vec::pop
Pop(v) == SubSeq(v, 1, Len(v) - 1)

\* F(e), with e evaluated once and F applied to its value
Bind(e, F(_)) == CHOOSE out \in {F(v) : v \in {e}} : TRUE

-----------------------------------------------------------------------------
(* Extractor::get_sub_paths_from_path *)

RECURSIVE SubPathsLoopAllSlashed(_, _, _, _)
\* the loop with the `i > 0` test lost: every entry gets the trailing slash
SubPathsLoopAllSlashed(i, length, parts, acc) ==
    IF i >= length \/ parts = <<>> THEN acc
    ELSE LET joined == JoinWith(parts, SLASH)
         IN  IF joined = <<>>
             THEN SubPathsLoopAllSlashed(i + 1, length, parts, acc)
             ELSE SubPathsLoopAllSlashed(i + 1, length, Pop(parts),
                                         Append(acc, Append(joined, SLASH)))

RECURSIVE SubPathsLoop(_, _, _, _)
\* for i in 0..length { ... }: `parts` and `paths` (acc) as the loop leaves them
SubPathsLoop(i, length, parts, acc) ==
    IF i >= length THEN acc
    ELSE IF parts = <<>> THEN acc                      \* break
    ELSE LET joined == JoinWith(parts, SLASH)
             possible_path == IF i > 0 THEN Append(joined, SLASH) ELSE joined
         IN  IF joined = <<>>
             THEN SubPathsLoop(i + 1, length, parts, acc)      \* continue
             ELSE SubPathsLoop(i + 1, length, Pop(parts), Append(acc, possible_path))

get_sub_paths_from_path(p) ==
    LET parts == NonEmpty(Split(p, SLASH))
    IN  SubPathsLoop(0, Len(parts), parts, <<>>)

-----------------------------------------------------------------------------
(* reqwest::Url (the url crate), as far as the extractor uses it.           *)
(* Option<T> is a sequence of length 0 (None) or 1 (Some).  The strings     *)
(* explored hold letters, digits, ':', '/', '?' and '.', and no path        *)
(* segment "." or "..", so percent-encoding, userinfo, fragments and        *)
(* dot-segment removal never come into play.                                *)

Letters == {"a", "b", "c", "d", "e", "f", "g", "h", "i", "j", "k", "l", "m",
            "n", "o", "p", "q", "r", "s", "t", "u", "v", "w", "x", "y", "z"}

Digits == {"0", "1", "2", "3", "4", "5", "6", "7", "8", "9"}

COLON == ":"

QMARK == "?"

DOT == "."

\* characters a scheme may hold after its first letter
SchemeChars == Letters \cup Digits \cup {"+", "-", DOT}

HTTP == <<"h", "t", "t", "p">>

HTTPS == <<"h", "t", "t", "p", "s">>

FTP == <<"f", "t", "p">>

\* SchemeType::Special (without "file", "ws" and "wss", which no input uses)
SpecialSchemes == {HTTP, HTTPS, FTP}

\* url::parser::default_port
DefaultPort(scheme) ==
    IF scheme = HTTP THEN <<"8", "0">>
    ELSE IF scheme = HTTPS THEN <<"4", "4", "3">>
    ELSE IF scheme = FTP THEN <<"2", "1">>
    ELSE <<>>

\* the least element of a non-empty set of integers
MinOf(S) == CHOOSE x \in S : \A y \in S : x <= y

\* index of the first character of s that is in cs, Len(s) + 1 when there is none
FirstIn(s, cs) ==
    LET hits == {i \in 1..Len(s) : s[i] \in cs}
    IN  IF hits = {} THEN Len(s) + 1 ELSE MinOf(hits)

\* s from index i to its end
From(s, i) == SubSeq(s, i, Len(s))

\* number of leading '/' of s (Input::count_matching)
LeadingSlashes(s) == FirstIn(s, {s[i] : i \in 1..Len(s)} \ {SLASH}) - 1

NoUrl == [scheme |-> <<>>, has_host |-> FALSE, host |-> <<>>, port |-> <<>>,
          path |-> <<>>, query |-> <<>>, cannot_be_a_base |-> FALSE]

UrlOk(u) == [ok |-> TRUE, err |-> "", url |-> u]

UrlErr(e) == [ok |-> FALSE, err |-> e, url |-> NoUrl]

\* Parser::parse_scheme: index of the ':' that ends the scheme, 0 without a scheme
SchemeEnd(s) ==
    IF s = <<>> \/ s[1] \notin Letters THEN 0
    ELSE LET stop == FirstIn(s, {c \in {s[i] : i \in 1..Len(s)} : c \notin SchemeChars})
         IN  IF stop <= Len(s) /\ s[stop] = COLON THEN stop ELSE 0

\* Parser::parse_query_and_fragment: Some(query) after a '?'
QueryOf(s) ==
    LET q == FirstIn(s, {QMARK})
    IN  IF q > Len(s) THEN <<>> ELSE <<From(s, q + 1)>>

\* the part of s before its query
BeforeQuery(s) == SubSeq(s, 1, FirstIn(s, {QMARK}) - 1)

\* Parser::after_double_slash: authority, path and query; `rest` follows the "//"
\* Parser::parse_host and parse_port on the authority, and the url they give
AuthorityUrl(scheme, a) ==
    LET special == scheme \in SpecialSchemes
    IN  IF special /\ a.host = <<>> THEN UrlErr("EmptyHost")
        ELSE IF \E i \in 1..Len(a.port) : a.port[i] \notin Digits THEN UrlErr("InvalidPort")
        ELSE UrlOk([scheme |-> scheme, has_host |-> TRUE, host |-> a.host,
                    port |-> IF a.port = DefaultPort(scheme) THEN <<>> ELSE a.port,
                    path |-> IF a.raw_path = <<>> /\ special THEN <<SLASH>> ELSE a.raw_path,
                    query |-> a.query, cannot_be_a_base |-> FALSE])

AfterDoubleSlash(scheme, rest) ==
    Bind(FirstIn(rest, {SLASH, QMARK}),
         LAMBDA stop :
             Bind([authority |-> SubSeq(rest, 1, stop - 1), after |-> From(rest, stop)],
                  LAMBDA s :
                      Bind(FirstIn(s.authority, {COLON}),
                           LAMBDA colon :
                               Bind([host |-> SubSeq(s.authority, 1, colon - 1),
                                     port |-> From(s.authority, colon + 1),
                                     raw_path |-> BeforeQuery(s.after),
                                     query |-> QueryOf(s.after)],
                                    LAMBDA a : AuthorityUrl(scheme, a)))))

\* Parser::pop_path: the path up to and including its last '/'
PopPath(p) ==
    LET slashes == {i \in 1..Len(p) : p[i] = SLASH}
    IN  IF slashes = {} THEN <<>>
        ELSE SubSeq(p, 1, CHOOSE i \in slashes : \A j \in slashes : j <= i)

\* Parser::parse_relative, for a base that is not cannot-be-a-base
ParseRelative(input, base) ==
    IF input = <<>> THEN UrlOk(base)
    ELSE IF input[1] = QMARK THEN UrlOk([base EXCEPT !.query = <<From(input, 2)>>])
    ELSE IF input[1] = SLASH /\ base.scheme \in SpecialSchemes /\ LeadingSlashes(input) >= 2
         THEN Bind(From(input, LeadingSlashes(input) + 1),
                   LAMBDA rest : AfterDoubleSlash(base.scheme, rest))
    ELSE IF input[1] = SLASH
         THEN UrlOk([base EXCEPT !.path = BeforeQuery(input), !.query = QueryOf(input)])
    ELSE LET dir == PopPath(base.path)
         IN  UrlOk([base EXCEPT
                      !.path = (IF dir = <<>> THEN <<SLASH>> ELSE dir) \o BeforeQuery(input),
                      !.query = QueryOf(input)])

\* Parser::parse_non_special
ParseNonSpecial(scheme, rest) ==
    IF StartsWith(rest, <<SLASH, SLASH>>)
    THEN Bind(From(rest, 3), LAMBDA after : AfterDoubleSlash(scheme, after))
    ELSE UrlOk([scheme |-> scheme, has_host |-> FALSE, host |-> <<>>, port |-> <<>>,
                path |-> BeforeQuery(rest), query |-> QueryOf(rest),
                cannot_be_a_base |-> ~StartsWith(rest, <<SLASH>>)])

\* Parser::parse_with_scheme; base is an Option<Url>
ParseWithScheme(scheme, rest, base) ==
    IF scheme \in SpecialSchemes
    THEN IF base # <<>> /\ LeadingSlashes(rest) < 2 /\ base[1].scheme = scheme
         THEN ParseRelative(rest, base[1])
         ELSE Bind(From(rest, LeadingSlashes(rest) + 1),
                   LAMBDA after : AfterDoubleSlash(scheme, after))
    ELSE ParseNonSpecial(scheme, rest)

\* Parser::parse_url; base is an Option<Url>
ParseUrl(input, base) ==
    Bind(SchemeEnd(input),
         LAMBDA colon :
             IF colon > 0
             THEN Bind(<<SubSeq(input, 1, colon - 1), From(input, colon + 1)>>,
                       LAMBDA split : ParseWithScheme(split[1], split[2], base))
             ELSE IF base = <<>> THEN UrlErr("RelativeUrlWithoutBase")
             ELSE IF base[1].cannot_be_a_base THEN UrlErr("RelativeUrlWithCannotBeABaseBase")
             ELSE ParseRelative(input, base[1]))

\* Url::parse
Url_parse(input) == ParseUrl(input, <<>>)

\* Url::join
Url_join(base, input) == ParseUrl(input, <<base>>)

\* Url::as_str / Url::to_string
Url_to_string(u) ==
    u.scheme \o <<COLON>>
    \o (IF u.has_host
        THEN <<SLASH, SLASH>> \o u.host \o (IF u.port = <<>> THEN <<>> ELSE <<COLON>> \o u.port)
        ELSE <<>>)
    \o u.path
    \o (IF u.query = <<>> THEN <<>> ELSE <<QMARK>> \o u.query[1])

\* Host::Ipv4 rather than Host::Domain
IsIpv4(h) == h # <<>> /\ \A i \in 1..Len(h) : h[i] \in Digits \cup {DOT}

\* Url::host
Url_host(u) ==
    IF ~u.has_host \/ u.host = <<>> THEN <<>>
    ELSE <<[kind |-> IF IsIpv4(u.host) THEN "Ipv4" ELSE "Domain", name |-> u.host]>>

\* Url::domain
Url_domain(u) ==
    IF u.has_host /\ u.host # <<>> /\ ~IsIpv4(u.host) THEN <<u.host>> ELSE <<>>

\* Url::set_path, for a url that is not cannot-be-a-base; the query is kept
Url_set_path(u, p) ==
    IF u.cannot_be_a_base THEN u
    ELSE [u EXCEPT !.path = IF StartsWith(p, <<SLASH>>) THEN p ELSE <<SLASH>> \o p]

\* Url::path_segments: None for a path that does not start with '/', else the
\* pieces of the rest of the path
Url_path_segments(u) ==
    IF StartsWith(u.path, <<SLASH>>) THEN <<Split(Tail(u.path), SLASH)>> ELSE <<>>

-----------------------------------------------------------------------------
(* utils::get_current_depth *)

get_current_depth(t) ==
    LET normalized == IF ~EndsWith(t, SLASH) THEN Append(t, SLASH) ELSE t
        parsed == Url_parse(normalized)
    IN  IF parsed.ok
        THEN LET parts == Url_path_segments(parsed.url)
             IN  IF parts # <<>> THEN Len(parts[1]) ELSE 0
        ELSE 0

-----------------------------------------------------------------------------
(* Extractor: producing the link set *)

Passes == 1..NumPasses

ResponseBody == "ResponseBody"

RobotsTxt == "RobotsTxt"

QUOTE == "'"

DQUOTE == "\""

RECURSIVE TrimStart(_, _)
TrimStart(s, cs) == IF s # <<>> /\ s[1] \in cs THEN TrimStart(Tail(s), cs) ELSE s

RECURSIVE TrimEnd(_, _)
TrimEnd(s, cs) == IF s # <<>> /\ s[Len(s)] \in cs THEN TrimEnd(Pop(s), cs) ELSE s

\* str::trim_matches
TrimMatches(s, cs) == TrimEnd(TrimStart(s, cs), cs)

\* a Result<(), Error> together with the `links` set as the call left it
Added(ok, set) == [ok |-> ok, links |-> set]

\* Extractor::add_link_to_set_of_links
add_link_to_set_of_links(self, link, set) ==
    LET old_url == IF self.target = ResponseBody
                   THEN UrlOk(self.response[1].url)
                   ELSE Url_parse(self.url)
    IN  IF ~old_url.ok THEN Added(FALSE, set)                        \* bail!
        ELSE LET new_url == Url_join(old_url.url, link)
             IN  IF ~new_url.ok THEN Added(FALSE, set)               \* with_context(..)?
                 ELSE Added(TRUE, set \cup {Url_to_string(new_url.url)})

RECURSIVE AddSubPathsFrom(_, _, _, _)
\* for sub_path in ... { add_link_to_set_of_links(..)? }, from the i-th sub-path on
AddSubPathsFrom(self, sub_paths, i, set) ==
    IF i > Len(sub_paths) THEN Added(TRUE, set)
    ELSE Bind(add_link_to_set_of_links(self, sub_paths[i], set),
              LAMBDA r : IF ~r.ok THEN r                              \* `?` returns
                         ELSE AddSubPathsFrom(self, sub_paths, i + 1, r.links))

\* Extractor::add_all_sub_paths
add_all_sub_paths(self, url_path, set) ==
    Bind(get_sub_paths_from_path(url_path),
         LAMBDA sub_paths : AddSubPathsFrom(self, sub_paths, 1, set))

\* the same-host test of extract_from_body
SameHost(absolute, response_url) ==
    ~(Url_domain(absolute) # Url_domain(response_url)
      \/ Url_host(absolute) # Url_host(response_url))

\* extract_from_body: the body of `for capture in ...captures_iter(&body)`
BodyCapture(self, capture, set) ==
    LET link == TrimMatches(capture, {QUOTE, DQUOTE})
        parsed == Url_parse(link)
    IN  IF parsed.ok
        THEN IF ~SameHost(parsed.url, self.response[1].url)
             THEN set                                                 \* continue
             ELSE add_all_sub_paths(self, parsed.url.path, set).links
        ELSE IF parsed.err = "RelativeUrlWithoutBase"
             THEN add_all_sub_paths(self, link, set).links
             ELSE set

RECURSIVE BodyCapturesStopAtErr(_, _, _)
\* the loop over the captures left at the first capture whose sub-paths could
\* not all be added
BodyCapturesStopAtErr(self, i, set) ==
    IF i > Len(self.response[1].captures) THEN set
    ELSE LET link == TrimMatches(self.response[1].captures[i], {QUOTE, DQUOTE})
             parsed == Url_parse(link)
             failed == ~add_all_sub_paths(self, IF parsed.ok THEN parsed.url.path ELSE link,
                                          set).ok
             next == BodyCapture(self, self.response[1].captures[i], set)
         IN  IF failed THEN next ELSE BodyCapturesStopAtErr(self, i + 1, next)

RECURSIVE BodyCapturesFrom(_, _, _)
BodyCapturesFrom(self, i, set) ==
    IF i > Len(self.response[1].captures) THEN set
    ELSE Bind(BodyCapture(self, self.response[1].captures[i], set),
              LAMBDA next : BodyCapturesFrom(self, i + 1, next))

\* Extractor::extract_from_body: the link set (the regex's captures are given)
extract_from_body(self) == BodyCapturesFrom(self, 1, {})

ROBOTS_TXT == <<SLASH, "r", "o", "b", "o", "t", "s", DOT, "t", "x", "t">>

\* the request with robots.txt resolved against the target instead of set as its path
RobotsUrlJoined(self) ==
    LET url == Url_parse(self.url)
    IN  IF ~url.ok THEN url ELSE Url_join(url.url, Tail(ROBOTS_TXT))

\* request_robots_txt: the url requested, an Err when self.url does not parse
RobotsUrl(self) ==
    LET url == Url_parse(self.url)
    IN  IF ~url.ok THEN url ELSE UrlOk(Url_set_path(url.url, ROBOTS_TXT))

\* extract_from_robots: the body of `for capture in ...`, new_path the "url_path" group
RobotsCapture(self, new_path, set) ==
    LET new_url == Url_parse(self.url)
    IN  IF ~new_url.ok THEN Added(FALSE, set)                        \* Url::parse(..)?
        ELSE Added(TRUE, add_all_sub_paths(self, Url_set_path(new_url.url, new_path).path,
                                           set).links)

RECURSIVE RobotsCapturesFrom(_, _, _, _)
RobotsCapturesFrom(self, captures, i, set) ==
    IF i > Len(captures) THEN Added(TRUE, set)
    ELSE Bind(RobotsCapture(self, captures[i], set),
              LAMBDA r : IF ~r.ok THEN r
                         ELSE RobotsCapturesFrom(self, captures, i + 1, r.links))

\* Extractor::extract_from_robots once the response is in: Ok(links) or Err
extract_from_robots(self, captures) == RobotsCapturesFrom(self, captures, 1, {})

\* update_stats with the multiplier taken as the number of extensions
StatsUnclamped(p, num_links) ==
    SetToBag({[field |-> "LinksExtracted", value |-> num_links, pass |-> p]})
    (+) SetToBag({[field |-> "TotalExpected",
                   value |-> num_links * config.extensions, pass |-> p]})

\* update_stats without its second command
StatsLinksOnly(p, num_links) ==
    SetToBag({[field |-> "LinksExtracted", value |-> num_links, pass |-> p]})

\* Extractor::update_stats: the two commands sent on tx_stats (pass: who sent them)
update_stats(p, num_links) ==
    LET multiplier == IF config.extensions > 1 THEN config.extensions ELSE 1
    IN  SetToBag({[field |-> "LinksExtracted", value |-> num_links, pass |-> p]})
        (+) SetToBag({[field |-> "TotalExpected",
                       value |-> num_links * multiplier, pass |-> p]})

-----------------------------------------------------------------------------
(* Extractor: probing the candidates *)

\* utils::format_url(url, "", add_slash, queries, None, ..) with no queries
\* configured: the candidate parsed, a '/' put after its path when add_slash asks
format_url(url, add_slash) ==
    Bind(Url_parse(url),
         LAMBDA parsed :
             IF ~parsed.ok THEN parsed
             ELSE IF add_slash /\ ~EndsWith(parsed.url.path, SLASH)
                  THEN UrlOk([parsed.url EXCEPT !.path = Append(@, SLASH)])
                  ELSE parsed)

\* a lookup that finds no scan, whatever the ledger holds
get_scan_never(ledger, url) == FALSE

\* FeroxScans::get_scan_by_url(url).is_some()
get_scan_by_url(ledger, url) == url \in ledger

\* a registration that leaves the ledger as it was
add_file_scan_skipped(ledger, url) == ledger

\* FeroxScans::add_file_scan
add_file_scan(ledger, url) == ledger \cup {url}

\* StatusCode::is_success
is_success(status) == 200 <= status /\ status < 300

FORBIDDEN == 403

\* the recursion flag read the wrong way round
RecursiveInverted(cfg) == IF cfg.no_recursion THEN "Recursive" ELSE "NotRecursive"

\* extract: `let recursive = if self.config.no_recursion {..}`
RecursionStatus(cfg) == IF cfg.no_recursion THEN "NotRecursive" ELSE "Recursive"

\* FeroxResponse::set_url: the string parsed into the response's Url
set_url(r, url) ==
    LET parsed == Url_parse(url)
    IN  IF parsed.ok THEN [r EXCEPT !.url = Url_to_string(parsed.url)] ELSE r

\* the correction applied whatever the status
SlashCorrectedAnyStatus(r) ==
    IF ~EndsWith(r.url, SLASH) THEN set_url(r, Append(r.url, SLASH)) ELSE r

\* the correction with the 403 case lost
SlashCorrectedSuccessOnly(r) ==
    IF ~EndsWith(r.url, SLASH) /\ is_success(r.status)
    THEN set_url(r, Append(r.url, SLASH))
    ELSE r

\* extract: the trailing-slash correction of a directory response
SlashCorrected(r) ==
    IF ~EndsWith(r.url, SLASH) /\ (is_success(r.status) \/ r.status = FORBIDDEN)
    THEN set_url(r, Append(r.url, SLASH))
    ELSE r

\* what try_recursion sends for response r: the url and the depth (status and
\* pass tell which response it was)
Target(r, depth) == [url |-> r.url, depth |-> depth, status |-> r.status, pass |-> r.pass]

\* try_recursion forwarding whatever it is handed
try_recursion_always(r, depth, tx) == tx (+) SetToBag({Target(r, depth)})

\* scanner::try_recursion: the response is forwarded when it is a directory, a
\* 2xx or 403 whose url ends in '/'; the depth limit is the consumer's
try_recursion(r, depth, tx) ==
    IF EndsWith(r.url, SLASH) /\ (is_success(r.status) \/ r.status = FORBIDDEN)
    THEN tx (+) SetToBag({Target(r, depth)})
    ELSE tx

\* FeroxResponse::is_file, as the probe's answer has it
is_file(r) == r.kind = "file"

\* the recursion block entered by files too (the `continue` after send_report lost)
ShouldRecurseFilesToo(r, cfg) == RecursionStatus(cfg) = "Recursive"

\* extract: a response reaches `if matches!(recursive, RecursionStatus::Recursive)`
\* when it was not a file (files `continue` before it) and the scan is recursive
ShouldRecurse(r, cfg) == ~is_file(r) /\ RecursionStatus(cfg) = "Recursive"

\* what a probe can come back as: a request error, or a response with its status
\* as should_filter_response and is_file classify it
Outcomes ==
    {[kind |-> "error", status |-> 0]}
    \cup [kind : {"filtered", "file"}, status : {200}]
    \cup [kind : {"directory"}, status : {200, FORBIDDEN, 404}]

NoResp == [url |-> <<>>, status |-> 0, kind |-> "none", pass |-> 0]

\* extract, target ResponseBody: self.extract_from_body()
ExtractFromBody(p) ==
    /\ pc[p] = "start"
    /\ extractor[p].target = ResponseBody
    /\ \E set \in {extract_from_body(extractor[p])} :
          /\ links' = [links EXCEPT ![p] = set]
          /\ tx_stats' = tx_stats (+) update_stats(p, Cardinality(set))
    /\ pc' = [pc EXCEPT ![p] = "loop"]
    /\ UNCHANGED <<fn_vars, config, robots_txt, extractor, resp, result, scanned_urls, tx_reporter,
                   tx_recursion, recursed, requests, probed>>

\* extract, target RobotsTxt: request_robots_txt up to its make_request(..).await
RequestRobotsTxt(p) ==
    /\ pc[p] = "start"
    /\ extractor[p].target = RobotsTxt
    /\ \E url \in {RobotsUrl(extractor[p])} :
           IF ~url.ok
           THEN /\ pc' = [pc EXCEPT ![p] = "done"]
                /\ result' = [result EXCEPT ![p] = "Err"]
                /\ UNCHANGED requests
           ELSE /\ requests' = requests (+) SetToBag({[url |-> Url_to_string(url.url),
                                                       pass |-> p, kind |-> "robots"]})
                /\ pc' = [pc EXCEPT ![p] = "robots_wait"]
                /\ UNCHANGED result
    /\ UNCHANGED <<fn_vars, config, robots_txt, extractor, links, resp, scanned_urls, tx_stats,
                   tx_reporter, tx_recursion, recursed, probed>>

\* request_robots_txt returns, then the rest of extract_from_robots
RobotsResponse(p) ==
    /\ pc[p] = "robots_wait"
    /\ \/ /\ pc' = [pc EXCEPT ![p] = "done"]                 \* make_request(..).await?
          /\ result' = [result EXCEPT ![p] = "Err"]
          /\ UNCHANGED <<links, tx_stats>>
       \/ \E r \in {extract_from_robots(extractor[p], robots_txt)} :
              IF ~r.ok
              THEN /\ pc' = [pc EXCEPT ![p] = "done"]
                   /\ result' = [result EXCEPT ![p] = "Err"]
                   /\ UNCHANGED <<links, tx_stats>>
              ELSE /\ links' = [links EXCEPT ![p] = r.links]
                   /\ tx_stats' = tx_stats (+) update_stats(p, Cardinality(r.links))
                   /\ pc' = [pc EXCEPT ![p] = "loop"]
                   /\ UNCHANGED result
    /\ UNCHANGED <<fn_vars, config, robots_txt, extractor, resp, scanned_urls, tx_reporter,
                   tx_recursion, recursed, requests, probed>>

\* extract: the loop takes a link; request_link up to its make_request(..).await
RequestLink(p) ==
    /\ pc[p] = "loop"
    /\ \E link \in links[p] :
          \E new_url \in {format_url(link, config.add_slash)} :
          \E target \in {Url_to_string(new_url.url)} :
              /\ links' = [links EXCEPT ![p] = @ \ {link}]
              /\ IF ~new_url.ok \/ get_scan_by_url(scanned_urls, target)
                 THEN UNCHANGED <<pc, resp, requests>>          \* Err(_) => continue
                 ELSE /\ requests' = requests (+) SetToBag({[url |-> target, pass |-> p,
                                                             kind |-> "link"]})
                      /\ resp' = [resp EXCEPT ![p] = [url |-> target, status |-> 0,
                                                      kind |-> "pending", pass |-> p]]
                      /\ pc' = [pc EXCEPT ![p] = "probe_wait"]
    /\ UNCHANGED <<fn_vars, config, robots_txt, extractor, result, scanned_urls, tx_stats,
                   tx_reporter, tx_recursion, recursed, probed>>

\* a call of try_recursion as `recursed` records it: the response handed over,
\* the depth, and the url and class of the response as it was probed
Call(corrected, depth, r) ==
    [url |-> corrected.url, status |-> corrected.status, depth |-> depth,
     pass |-> r.pass, probed |-> r.url, kind |-> r.kind]

\* extract: the recursion block for response r of pass p
RecursionStep(p, r) ==
    IF ShouldRecurse(r, config)
    THEN \E corrected \in {SlashCorrected(r)} :
            /\ recursed' = recursed (+) SetToBag({Call(corrected, extractor[p].depth, r)})
            /\ tx_recursion' = try_recursion(corrected, extractor[p].depth, tx_recursion)
    ELSE UNCHANGED <<recursed, tx_recursion>>

\* should_filter_response answering false for every response
should_filter_never(r) == FALSE

\* filters::should_filter_response, as the probe's answer has it
should_filter_response(r) == r.kind = "filtered"

\* the failed request ending the loop as a `break` would: Ok(()) with links left
RequestFailedBreaks(p) ==
    /\ resp' = [resp EXCEPT ![p] = NoResp]
    /\ pc' = [pc EXCEPT ![p] = "done"]
    /\ result' = [result EXCEPT ![p] = "Ok"]

\* the failed request propagated as `?` would: extract returns the Err
RequestFailedPropagates(p) ==
    /\ resp' = [resp EXCEPT ![p] = NoResp]
    /\ pc' = [pc EXCEPT ![p] = "done"]
    /\ result' = [result EXCEPT ![p] = "Err"]

\* extract: `Err(_) => continue` when the request of request_link failed
RequestFailed(p) ==
    /\ resp' = [resp EXCEPT ![p] = NoResp]
    /\ pc' = [pc EXCEPT ![p] = "loop"]
    /\ UNCHANGED result

\* request_link returns; extract filters the response, registers a file, or
\* takes a directory to the recursion block
ProbeResponse(p) ==
    /\ pc[p] = "probe_wait"
    /\ \E o \in Outcomes :
          \E r \in {[resp[p] EXCEPT !.status = o.status, !.kind = o.kind]} :
              /\ o.kind # "error" => Url_parse(r.url).url.scheme \in {HTTP, HTTPS}
              /\ probed' = IF o.kind = "error" THEN probed ELSE probed (+) SetToBag({r})
              /\ IF o.kind = "error"
                 THEN /\ RequestFailed(p)                       \* Err(_) => continue
                      /\ UNCHANGED <<scanned_urls, recursed, tx_recursion>>
                 ELSE IF should_filter_response(r)
                 THEN /\ resp' = [resp EXCEPT ![p] = NoResp]    \* continue
                      /\ pc' = [pc EXCEPT ![p] = "loop"]
                      /\ UNCHANGED <<result, scanned_urls, recursed, tx_recursion>>
                 ELSE IF is_file(r)
                 THEN /\ scanned_urls' = add_file_scan(scanned_urls, r.url)
                      /\ resp' = [resp EXCEPT ![p] = r]
                      /\ pc' = [pc EXCEPT ![p] = "report"]
                      /\ UNCHANGED <<result, recursed, tx_recursion>>
                 ELSE /\ resp' = [resp EXCEPT ![p] = NoResp]
                      /\ pc' = [pc EXCEPT ![p] = "loop"]
                      /\ UNCHANGED <<result, scanned_urls>>
                      /\ RecursionStep(p, r)
    /\ UNCHANGED <<fn_vars, config, robots_txt, extractor, links, tx_stats,
                   tx_reporter, requests>>

\* send_report on a channel of capacity one that nobody drains: the send waits
SendReportBounded(p) ==
    /\ pc[p] = "report"
    /\ tx_reporter = EmptyBag
    /\ tx_reporter' = tx_reporter (+) SetToBag({resp[p]})
    /\ resp' = [resp EXCEPT ![p] = NoResp]
    /\ pc' = [pc EXCEPT ![p] = "loop"]
    /\ UNCHANGED <<fn_vars, config, robots_txt, extractor, links, result, scanned_urls,
                   tx_stats, requests, probed, recursed, tx_recursion>>

\* extract: send_report(self.tx_reporter.clone(), resp) for a file, then `continue`
SendReport(p) ==
    /\ pc[p] = "report"
    /\ tx_reporter' = tx_reporter (+) SetToBag({resp[p]})
    /\ RecursionStep(p, resp[p])
    /\ resp' = [resp EXCEPT ![p] = NoResp]
    /\ pc' = [pc EXCEPT ![p] = "loop"]
    /\ UNCHANGED <<fn_vars, config, robots_txt, extractor, links, result, scanned_urls,
                   tx_stats, requests, probed>>

\* extract: the loop is over, Ok(())
Return(p) ==
    /\ pc[p] = "loop"
    /\ links[p] = {}
    /\ pc' = [pc EXCEPT ![p] = "done"]
    /\ result' = [result EXCEPT ![p] = "Ok"]
    /\ UNCHANGED <<fn_vars, config, robots_txt, extractor, links, resp, shared_vars>>

-----------------------------------------------------------------------------
(* Inputs *)

\* scheme "://" host
Origin(scheme, host) == scheme \o <<COLON, SLASH, SLASH>> \o host

\* the scanned host, another domain, and two ip addresses
HostT == <<"t">>

HostO == <<"o">>

Ip1 == <<"1", DOT, "1">>

Ip2 == <<"1", DOT, "2">>

NoExtractor == [target |-> ResponseBody, url |-> <<>>, response |-> <<>>, depth |-> 0]

\* an Extractor over a response body
BodyExtractor(url, captures, depth) ==
    [target |-> ResponseBody, url |-> url,
     response |-> <<[url |-> Url_parse(url).url, captures |-> captures]>>, depth |-> depth]

\* an Extractor over the robots.txt of a target
RobotsExtractor(url, depth) ==
    [target |-> RobotsTxt, url |-> url, response |-> <<>>, depth |-> depth]

IdleFn ==
    /\ path = <<>> /\ paths = <<>> /\ fn_pc = "idle"
    /\ depth_target = <<>> /\ current_depth = 0

IdleShared ==
    /\ tx_stats = EmptyBag /\ tx_reporter = EmptyBag /\ tx_recursion = EmptyBag
    /\ recursed = EmptyBag /\ requests = EmptyBag /\ probed = EmptyBag

IdlePasses ==
    /\ config = [no_recursion |-> FALSE, add_slash |-> FALSE, extensions |-> 0]
    /\ robots_txt = <<>>
    /\ scanned_urls = {}
    /\ IdleShared
    /\ extractor = [p \in Passes |-> NoExtractor]
    /\ pc = [p \in Passes |-> "done"]
    /\ links = [p \in Passes |-> {}]
    /\ resp = [p \in Passes |-> NoResp]
    /\ result = [p \in Passes |-> ""]

-----------------------------------------------------------------------------
(* SpecPaths: get_sub_paths_from_path on every fragment up to MaxPathLen *)

PathInputs == StringsUpTo(PathChars, MaxPathLen)

InitPaths ==
    /\ path \in PathInputs
    /\ paths = <<>>
    /\ fn_pc = "call"
    /\ depth_target = <<>> /\ current_depth = 0
    /\ IdlePasses

CallGetSubPaths ==
    /\ fn_pc = "call"
    /\ paths' = get_sub_paths_from_path(path)
    /\ fn_pc' = "ret"
    /\ UNCHANGED <<path, depth_target, current_depth, pass_vars, shared_vars>>

NextPaths == CallGetSubPaths

SpecPaths == InitPaths /\ [][NextPaths]_vars

-----------------------------------------------------------------------------
(* SpecDepth: get_current_depth on urls of the target, with and without a    *)
(* query, and on the same strings without their scheme                       *)

\* the url paths explored: empty, or a '/' followed by up to MaxDepthPathLen - 1
\* characters
DepthPaths ==
    {<<>>} \cup {<<SLASH>> \o q : q \in StringsUpTo({"a", SLASH}, MaxDepthPathLen - 1)}

DepthTargets ==
    {prefix \o p \o q : prefix \in {Origin(HTTP, HostT), HostT},
                        p \in DepthPaths,
                        q \in {<<>>, <<QMARK, "q">>}}

InitDepth ==
    /\ path = <<>> /\ paths = <<>>
    /\ fn_pc = "depth_call"
    /\ depth_target \in DepthTargets
    /\ current_depth = 0
    /\ IdlePasses

CallGetCurrentDepth ==
    /\ fn_pc = "depth_call"
    /\ current_depth' = get_current_depth(depth_target)
    /\ fn_pc' = "depth_ret"
    /\ UNCHANGED <<path, paths, depth_target, pass_vars, shared_vars>>

NextDepth == CallGetCurrentDepth

SpecDepth == InitDepth /\ [][NextDepth]_vars

-----------------------------------------------------------------------------
(* SpecExtract: one pass producing its link set, from a body of up to          *)
(* MaxCaptures links or from the robots.txt of a target                      *)

\* the urls of the responses whose bodies are scanned: a domain and an ip address
BodyUrls == {Origin(HTTPS, HostT) \o <<SLASH, "d", SLASH, "p">>,
             Origin(HTTP, Ip1) \o <<SLASH>>}

\* what the link regex can capture
Captures ==
    { <<QUOTE, SLASH, "a", SLASH, "b", QUOTE>>,              \* '/a/b'
      <<"a", SLASH, SLASH, "b", SLASH, "c">>,                \* a//b/c
      Origin(HTTPS, HostT) \o <<SLASH, "a">>,                \* https://t/a
      Origin(HTTPS, HostO) \o <<SLASH, "b">>,                \* https://o/b
      Origin(HTTP, Ip1) \o <<SLASH, "a">>,                   \* http://1.1/a
      Origin(HTTP, Ip2) \o <<SLASH, "a">>,                   \* http://1.2/a
      <<SLASH, SLASH>> \o HostO \o <<SLASH, "a">>,           \* //o/a
      <<"x", COLON, "y">>,                                   \* x:y
      Origin(HTTP, HostT) \o <<COLON, "x", SLASH>>,          \* http://t:x/
      <<SLASH>> \o Origin(HTTP, HostO) \o <<SLASH, "b">>,    \* /http://o/b
      <<SLASH>> \o Origin(HTTP, HostO) \o <<COLON, "x", SLASH, "b">> }   \* /http://o:x/b

RECURSIVE SeqsUpTo(_, _)
\* the sequences over S of length at most n
SeqsUpTo(S, n) ==
    IF n = 0 THEN {<<>>}
    ELSE LET shorter == SeqsUpTo(S, n - 1)
         IN  shorter \cup {Append(q, x) : q \in {t \in shorter : Len(t) = n - 1}, x \in S}

\* the targets whose robots.txt is fetched; the last is no absolute url
RobotsTargets ==
    { Origin(HTTP, HostT),
      Origin(HTTP, HostT) \o <<SLASH, "a", SLASH, "b", SLASH, "c">>,
      Origin(HTTPS, HostT) \o <<COLON, "8", "1">> \o <<SLASH, "a", SLASH>>,
      Origin(HTTP, Ip1) \o <<SLASH, "a", QMARK, "q">>,
      HostT \o <<SLASH, "a">> }

\* the paths a robots.txt can allow or disallow
RobotsPaths == { <<SLASH>>, <<SLASH, "a">>, <<SLASH, "a", SLASH, "b">>,
                 <<SLASH>> \o HTTPS \o <<COLON, SLASH, "x">> }

InitExtract ==
    /\ IdleFn
    /\ config \in [no_recursion : {FALSE}, add_slash : {FALSE}, extensions : 0..MaxExtensions]
    /\ scanned_urls = {}
    /\ IdleShared
    /\ \/ /\ \E url \in BodyUrls, captures \in SeqsUpTo(Captures, MaxCaptures) :
                extractor = [p \in Passes |->
                               IF p = 1 THEN BodyExtractor(url, captures, 1) ELSE NoExtractor]
          /\ robots_txt = <<>>
       \/ /\ \E url \in RobotsTargets :
                extractor = [p \in Passes |->
                               IF p = 1 THEN RobotsExtractor(url, 1) ELSE NoExtractor]
          /\ robots_txt \in SeqsUpTo(RobotsPaths, MaxCaptures)
    /\ pc = [p \in Passes |-> IF p = 1 THEN "start" ELSE "done"]
    /\ links = [p \in Passes |-> {}]
    /\ resp = [p \in Passes |-> NoResp]
    /\ result = [p \in Passes |-> ""]

NextExtract ==
    \E p \in Passes :
        \/ ExtractFromBody(p)
        \/ RequestRobotsTxt(p)
        \/ RobotsResponse(p)

SpecExtract == InitExtract /\ [][NextExtract]_vars

-----------------------------------------------------------------------------
(* Spec: NumPasses extraction passes running concurrently on one ledger *)

\* the target scanned
TargetUrl == Origin(HTTP, HostT) \o <<SLASH>>

\* the directory /a/ of the target
DirA == TargetUrl \o <<"a", SLASH>>

\* /a/ given without its scheme: a target Url::parse rejects
DirANoScheme == HostT \o <<SLASH, "a", SLASH>>

\* what a pass is started on: a response body, the robots.txt of a target, or the
\* robots.txt of a target that is no absolute url
SubjectKinds == {ResponseBody, RobotsTxt, "RobotsTxtNoScheme"}

\* pass 1 runs over a body of the target linking to '/a/b' (candidates /a/b and
\* /a/); every other pass runs over a body of /a/ linking to b, or over the
\* robots.txt of /a/ (candidate /a/b in both); pass p runs at depth p
ExtractorOf(kind, p) ==
    IF p = 1
    THEN BodyExtractor(TargetUrl, << <<QUOTE, SLASH, "a", SLASH, "b", QUOTE>> >>, p)
    ELSE IF kind = ResponseBody
    THEN BodyExtractor(DirA, << <<"b">> >>, p)
    ELSE IF kind = RobotsTxt
    THEN RobotsExtractor(DirA, p)
    ELSE RobotsExtractor(DirANoScheme, p)

\* ledgers the passes can start from: empty, or /a/ already scanned from the wordlist
InitialLedgers == {{}, {DirA}}

\* the configurations the passes run under: recursive, not recursive, and
\* recursive with a slash added to every candidate
Configs ==
    {[no_recursion |-> n, add_slash |-> a, extensions |-> MaxExtensions] :
        <<n, a>> \in {<<FALSE, FALSE>>, <<TRUE, FALSE>>, <<FALSE, TRUE>>}}

\* the runs explored: every configuration with an empty ledger and a robots.txt
\* naming /b, and under the first configuration also /a/ already in the ledger,
\* and an empty robots.txt
Init ==
    /\ IdleFn
    /\ config \in Configs
    /\ robots_txt \in {<<>>, << <<SLASH, "b">> >>}
    /\ scanned_urls \in InitialLedgers
    /\ (scanned_urls # {} \/ robots_txt = <<>>) => (~config.no_recursion /\ ~config.add_slash)
    /\ scanned_urls = {} \/ robots_txt # <<>>
    /\ IdleShared
    /\ \E kinds \in [Passes -> SubjectKinds] :
          extractor = [p \in Passes |-> ExtractorOf(kinds[p], p)]
    /\ pc = [p \in Passes |-> "start"]
    /\ links = [p \in Passes |-> {}]
    /\ resp = [p \in Passes |-> NoResp]
    /\ result = [p \in Passes |-> ""]

Next ==
    \E p \in Passes :
        \/ ExtractFromBody(p)
        \/ RequestRobotsTxt(p)
        \/ RobotsResponse(p)
        \/ RequestLink(p)
        \/ ProbeResponse(p)
        \/ SendReport(p)
        \/ Return(p)

Spec == Init /\ [][Next]_vars

\* the steps of pass p
PassNext(p) ==
    \/ ExtractFromBody(p)
    \/ RequestRobotsTxt(p)
    \/ RobotsResponse(p)
    \/ RequestLink(p)
    \/ ProbeResponse(p)
    \/ SendReport(p)
    \/ Return(p)

\* Spec with every pass scheduled: a pass that can take a step takes one in the
\* end, which for RobotsResponse and ProbeResponse says that the request in
\* flight returns
FairSpec == Spec /\ \A p \in Passes : WF_vars(PassNext(p))

-----------------------------------------------------------------------------
(* C4 *)

\* the link l is a url on the host of pass p's response
OnHostOf(p, l) ==
    LET parsed == Url_parse(l)
    IN  /\ parsed.ok
        /\ Url_host(parsed.url) = Url_host(extractor[p].response[1].url)

\* C4: the link set extract_from_body returns holds only urls on the response's
\* own host.
C4_OnlyOwnHost ==
    \A p \in Passes :
        (extractor[p].target = ResponseBody /\ pc[p] = "loop") =>
            \A l \in links[p] : OnHostOf(p, l)

-----------------------------------------------------------------------------
(* C1, C2 *)

\* the passes that found url not previously seen and issued the probe for it
Probers(url) ==
    {p \in Passes : [url |-> url, pass |-> p, kind |-> "link"] \in BagToSet(requests)}

\* the urls probes were issued for
ProbedUrls == {q.url : q \in {x \in BagToSet(requests) : x.kind = "link"}}

RECURSIVE SumOver(_, _)
\* the sum of f over the passes of S
SumOver(S, f) ==
    IF S = {} THEN 0
    ELSE LET p == CHOOSE x \in S : TRUE IN f[p] + SumOver(S \ {p}, f)

\* the number of probe requests issued for url, by whatever pass
ProbeCount(url) ==
    SumOver(Passes,
            [p \in Passes |-> CopiesIn([url |-> url, pass |-> p, kind |-> "link"], requests)])

\* C1: of the passes that discover the same url, only one finds it not
\* previously seen in request_link and issues the probe for it.
C1_OneObservesNew == \A url \in ProbedUrls : Cardinality(Probers(url)) <= 1

\* C2: over the whole run at most one probe request is issued for a url.
C2_AtMostOneProbe == \A url \in ProbedUrls : ProbeCount(url) <= 1

-----------------------------------------------------------------------------
(* C5 - C8 *)

\* C5: with recursion enabled, a response that is neither filtered nor a file,
\* whose url does not end in '/' and whose status is 2xx or 403, is handed to
\* try_recursion with its url plus one '/', at the depth of its pass.
C5_SlashAppended ==
    \A r \in BagToSet(probed) :
        (/\ ~config.no_recursion
         /\ r.kind = "directory"
         /\ ~EndsWith(r.url, SLASH)
         /\ (r.status \in 200..299 \/ r.status = 403)) =>
            CopiesIn([url |-> r.url \o <<SLASH>>, status |-> r.status,
                      depth |-> extractor[r.pass].depth, pass |-> r.pass,
                      probed |-> r.url, kind |-> r.kind], recursed)
                = CopiesIn(r, probed)

\* a 403 answer for /a/b was handed over as /a/b/
C5_Witness ==
    \E c \in BagToSet(recursed) :
        /\ c.status = 403
        /\ c.probed = DirA \o <<"b">>
        /\ c.url = DirA \o <<"b", SLASH>>
        /\ c.depth = extractor[c.pass].depth

C7_NoRecursion ==
    config.no_recursion =>
        /\ tx_recursion = EmptyBag
        /\ recursed = EmptyBag
        /\ \A p \in Passes : pc[p] \in {"loop", "probe_wait", "report"} =>
              \E c \in BagToSet(tx_stats) : c.pass = p /\ c.field = "LinksExtracted"
        /\ \A r \in BagToSet(probed) :
              (r.kind = "file" /\ ~(pc[r.pass] = "report" /\ resp[r.pass] = r)) =>
                  r \in BagToSet(tx_reporter)

\* recursion is disabled, a pass has met a directory answering 200 and reported a
\* file, and is done
C7_Witness ==
    /\ config.no_recursion
    /\ \E r \in BagToSet(probed), f \in BagToSet(tx_reporter) :
          /\ r.kind = "directory" /\ r.status = 200 /\ r.pass = f.pass
          /\ pc[r.pass] = "done"

\* 1 when pass r.pass has registered file response r and not yet reported it
PendingReport(r) == IF pc[r.pass] = "report" /\ resp[r.pass] = r THEN 1 ELSE 0

\* C8: an unfiltered response classified as a file is sent to the reporting
\* channel exactly once and never handed to try_recursion; an unfiltered
\* response that is not a file is never sent to the reporting channel.
C8_FilesReportedOnce ==
    /\ \A r \in BagToSet(probed) :
          IF r.kind = "file"
          THEN CopiesIn(r, tx_reporter) + PendingReport(r) = CopiesIn(r, probed)
          ELSE CopiesIn(r, tx_reporter) = 0
    /\ \A m \in BagToSet(tx_reporter) : m \in BagToSet(probed)
    /\ \A c \in BagToSet(recursed) : c.kind # "file"

\* with recursion enabled, a pass has reported a file and handed a directory over
C8_Witness ==
    /\ ~config.no_recursion
    /\ \E f \in BagToSet(tx_reporter), c \in BagToSet(recursed) :
          f.kind = "file" /\ c.pass = f.pass /\ pc[f.pass] = "done"

-----------------------------------------------------------------------------
(* C9, C10 *)

\* C9: a pass whose link set has n links, with e extensions configured, has sent
\* LinksExtracted n and TotalExpected n * max(1, e), once each and nothing else.
C9_StatsCounts ==
    \A p \in Passes :
        pc[p] = "loop" =>
            LET n == Cardinality(links[p])
                e == config.extensions
                sent == {c \in BagToSet(tx_stats) : c.pass = p}
            IN  /\ sent = {[field |-> "LinksExtracted", value |-> n, pass |-> p],
                           [field |-> "TotalExpected",
                            value |-> IF e = 0 THEN n ELSE n * e, pass |-> p]}
                /\ \A c \in sent : CopiesIn(c, tx_stats) = 1

\* five links with two extensions: 5 and 10; and some links with no extension
C9_Witness ==
    /\ pc[1] = "loop"
    /\ Cardinality(links[1]) = 5
    /\ config.extensions = 2
    /\ [field |-> "TotalExpected", value |-> 10, pass |-> 1] \in BagToSet(tx_stats)

\* C10: whatever the path of the target, robots.txt is requested at the target's
\* scheme, host and port with the path /robots.txt.
C10_RobotsAtRoot ==
    \A q \in BagToSet(requests) :
        q.kind = "robots" =>
            LET target == Url_parse(extractor[q.pass].url).url
                asked == Url_parse(q.url)
            IN  /\ asked.ok
                /\ asked.url.scheme = target.scheme
                /\ asked.url.host = target.host
                /\ asked.url.port = target.port
                /\ asked.url.path = <<SLASH, "r", "o", "b", "o", "t", "s", DOT, "t", "x", "t">>

\* for the target http://t/a/b/c the request went to http://t/robots.txt
C10_Witness ==
    \E q \in BagToSet(requests) :
        /\ q.kind = "robots"
        /\ extractor[q.pass].url = Origin(HTTP, HostT) \o <<SLASH, "a", SLASH, "b", SLASH, "c">>
        /\ q.url = Origin(HTTP, HostT) \o <<SLASH, "r", "o", "b", "o", "t", "s", DOT, "t", "x", "t">>

-----------------------------------------------------------------------------
(* C11, C12 *)

\* the requests pass p issued for its candidates
LinkRequestsOf(p) == {q \in BagToSet(requests) : q.pass = p /\ q.kind = "link"}

\* C11: once the link set is produced, a candidate that fails (its url not
\* built, already seen, or its request failed) never ends the pass: the pass
\* goes on with the links that are left, takes one link at a time, leaves the
\* loop only when no link is left, and then returns Ok.
C11_FailureSkipsOne ==
    [][\A p \in Passes :
          /\ (pc[p] = "probe_wait" /\ pc'[p] # "probe_wait") =>
                 /\ pc'[p] \in {"loop", "report"}
                 /\ links'[p] = links[p]
                 /\ result'[p] = ""
          /\ (pc[p] = "loop" /\ links'[p] # links[p]) =>
                 /\ pc'[p] \in {"loop", "probe_wait"}
                 /\ links'[p] \subseteq links[p]
                 /\ Cardinality(links'[p]) = Cardinality(links[p]) - 1
                 /\ result'[p] = ""
          /\ (pc[p] \in {"loop", "probe_wait", "report"} /\ pc'[p] = "done") =>
                 /\ pc[p] = "loop"
                 /\ links[p] = {}
                 /\ result'[p] = "Ok"]_vars

\* pass 1 requested both of its candidates, one request failed, the other
\* candidate was answered, and the pass returned Ok
C11_Witness ==
    /\ pc[1] = "done" /\ result[1] = "Ok"
    /\ {q.url : q \in LinkRequestsOf(1)} = {DirA, DirA \o <<"b">>}
    /\ Cardinality({r \in BagToSet(probed) : r.pass = 1}) = 1
    /\ \A r \in BagToSet(probed) : r.pass = 1 => CopiesIn(r, probed) = 1

\* C12: when the url built for a candidate is in the ledger as request_link
\* consults it, no request is issued for the candidate, nothing is reported,
\* registered or handed to recursion, and the ledger stays as it was.
C12_AlreadySeenSkipped ==
    [][\A p \in Passes :
          (pc[p] = "loop" /\ links'[p] # links[p]) =>
              \A link \in links[p] \ links'[p] :
                  LET new_url == format_url(link, config.add_slash)
                  IN  (new_url.ok /\ Url_to_string(new_url.url) \in scanned_urls) =>
                          /\ requests' = requests
                          /\ scanned_urls' = scanned_urls
                          /\ tx_reporter' = tx_reporter
                          /\ tx_recursion' = tx_recursion
                          /\ recursed' = recursed
                          /\ probed' = probed
                          /\ pc'[p] = "loop" /\ resp'[p] = NoResp]_vars

\* /a/ was in the ledger from the start; pass 1, which holds it as one of its two
\* candidates, went through its loop and no request was issued for it
C12_Witness ==
    /\ DirA \in scanned_urls
    /\ pc[1] = "done" /\ result[1] = "Ok"
    /\ [field |-> "LinksExtracted", value |-> 2, pass |-> 1] \in BagToSet(tx_stats)
    /\ {q.url : q \in LinkRequestsOf(1)} = {DirA \o <<"b">>}
    /\ \A q \in BagToSet(requests) : q.url # DirA

-----------------------------------------------------------------------------
(* C13 *)

\* the number of directories of url path p: its pieces after the leading '/',
\* an empty last piece (the path ends in '/') not counted
DirsOf(p) ==
    LET parts == Split(Tail(p), SLASH)
    IN  IF parts[Len(parts)] = <<>> THEN Len(parts) - 1 ELSE Len(parts)

\* C13: the depth of an absolute url does not depend on a trailing slash, is 1
\* for an empty path and 1 + the number of directories of its path otherwise;
\* the depth of a string that is no absolute url is 0.
C13_DepthOfUrl ==
    fn_pc = "depth_ret" =>
        LET u == Url_parse(depth_target)
        IN  /\ ~EndsWith(depth_target, SLASH) =>
                   current_depth = get_current_depth(Append(depth_target, SLASH))
            /\ u.ok => current_depth = 1 + DirsOf(u.url.path)
            /\ ~u.ok => current_depth = 0

-----------------------------------------------------------------------------
(* C14 *)

\* C14: a response should_filter_response rejects is dropped: it is never sent to
\* the reporting channel, never handed (slash-corrected or not) to the recursion
\* step, and its url is never registered: the ledger holds, beyond what it
\* started with, only urls of responses classified as files.
C14_FilteredDropped ==
    /\ \A m \in BagToSet(tx_reporter) : m.kind # "filtered"
    /\ \A c \in BagToSet(recursed) : c.kind # "filtered"
    /\ \A m \in BagToSet(tx_recursion) :
          \E c \in BagToSet(recursed) : c.kind = "directory" /\ c.url = m.url /\ c.pass = m.pass
    /\ \A u \in scanned_urls :
          u = DirA \/ \E r \in BagToSet(probed) : r.kind = "file" /\ r.url = u

\* with recursion enabled, the probe of /a/b came back filtered, the pass went on
\* to its end, and /a/b is neither in the ledger nor anywhere downstream
C14_Witness ==
    /\ ~config.no_recursion
    /\ \E r \in BagToSet(probed) :
          /\ r.kind = "filtered" /\ r.url = DirA \o <<"b">>
          /\ pc[r.pass] = "done" /\ result[r.pass] = "Ok"
    /\ DirA \o <<"b">> \notin scanned_urls
    /\ tx_reporter = EmptyBag

-----------------------------------------------------------------------------
(* C15 *)

\* how many commands for `field` pass p has sent on the statistics channel
StatsSent(p, field) ==
    LET sent == {c \in BagToSet(tx_stats) : c.pass = p /\ c.field = field}
    IN  SumOver(sent, [c \in sent |-> CopiesIn(c, tx_stats)])

\* C15 as stated: a pass that has returned has pushed one LinksExtracted and one
\* TotalExpected update, whatever happened to its subject fetch and its probes.
C15_StatsAlways ==
    \A p \in Passes :
        pc[p] = "done" =>
            StatsSent(p, "LinksExtracted") = 1 /\ StatsSent(p, "TotalExpected") = 1

\* C15, amended: a pass pushes one LinksExtracted and one TotalExpected update
\* when it has produced its link set, and that once, whatever its probes come back
\* as; a pass whose subject fetch failed has pushed none.
C15_StatsOncePerLinkSet ==
    \A p \in Passes :
        LET n == IF pc[p] \in {"loop", "probe_wait", "report"}
                    \/ (pc[p] = "done" /\ result[p] = "Ok")
                 THEN 1 ELSE 0
        IN  StatsSent(p, "LinksExtracted") = n /\ StatsSent(p, "TotalExpected") = n

\* pass 1 returned after requests that all failed and has pushed its counts once;
\* another pass returned Err and has pushed none
C15_Witness ==
    /\ pc[1] = "done" /\ result[1] = "Ok"
    /\ Cardinality(LinkRequestsOf(1)) = 2
    /\ \A r \in BagToSet(probed) : r.pass # 1
    /\ StatsSent(1, "LinksExtracted") = 1 /\ StatsSent(1, "TotalExpected") = 1
    /\ \E p \in Passes : result[p] = "Err" /\ StatsSent(p, "LinksExtracted") = 0

-----------------------------------------------------------------------------
(* C16 *)

\* what pass p has sent or caused downstream of its link set
DownstreamOf(p) ==
    LinkRequestsOf(p)
    \cup {m \in BagToSet(tx_reporter) : m.pass = p}
    \cup {c \in BagToSet(recursed) : c.pass = p}
    \cup {m \in BagToSet(tx_recursion) : m.pass = p}
    \cup {r \in BagToSet(probed) : r.pass = p}

\* C16: extract returns Err only when the subject fetch failed, that is for a
\* robots.txt pass whose target did not parse or whose robots.txt request was
\* issued and failed, and then without a candidate probed, a file reported or a
\* target forwarded; every pass that got its link set returns Ok.
C16_OnlySubjectFetchFails ==
    \A p \in Passes :
        /\ (pc[p] = "done") <=> (result[p] \in {"Ok", "Err"})
        /\ result[p] = "Err" =>
              /\ extractor[p].target = RobotsTxt
              /\ \/ ~Url_parse(extractor[p].url).ok
                 \/ \E q \in BagToSet(requests) : q.pass = p /\ q.kind = "robots"
              /\ StatsSent(p, "LinksExtracted") = 0
              /\ DownstreamOf(p) = {}
        /\ (pc[p] = "done" /\ (extractor[p].target = ResponseBody
                                \/ StatsSent(p, "LinksExtracted") > 0)) =>
              result[p] = "Ok"

\* a pass whose robots.txt request failed returned Err with nothing downstream,
\* while pass 1, one of whose requests failed, reported a file and returned Ok
C16_Witness ==
    /\ \E p \in Passes :
          /\ result[p] = "Err"
          /\ \E q \in BagToSet(requests) : q.pass = p /\ q.kind = "robots"
          /\ DownstreamOf(p) = {}
    /\ result[1] = "Ok"
    /\ Cardinality(LinkRequestsOf(1)) = 2
    /\ Cardinality({r \in BagToSet(probed) : r.pass = 1}) = 1
    /\ \E m \in BagToSet(tx_reporter) : m.pass = 1

-----------------------------------------------------------------------------
(* C17 *)

\* the path extract_from_body decomposes for a capture: Some(path), or None for a
\* capture it drops (another host, or a parse error other than a missing base)
CandidatePath(self, capture) ==
    LET link == TrimMatches(capture, {QUOTE, DQUOTE})
        parsed == Url_parse(link)
    IN  IF parsed.ok
        THEN IF SameHost(parsed.url, self.response[1].url) THEN <<parsed.url.path>> ELSE <<>>
        ELSE IF parsed.err = "RelativeUrlWithoutBase" THEN <<link>> ELSE <<>>

\* the urls of the sub-paths of url_path that resolve against base
Resolvable(base, url_path) ==
    LET sub_paths == get_sub_paths_from_path(url_path)
    IN  {Url_to_string(Url_join(base, sub_paths[i]).url) :
            i \in {j \in 1..Len(sub_paths) : Url_join(base, sub_paths[j]).ok}}

-----------------------------------------------------------------------------
(* C18 *)

\* C18: every extraction pass returns in the end, given that its requests return
\* and that it is scheduled, whatever the other passes do.
C18_EveryPassReturns == \A p \in Passes : <>[](pc[p] = "done")

\* all passes have returned, after probes from two of them, with sends on the
\* three channels
C18_Witness ==
    /\ \A p \in Passes : pc[p] = "done"
    /\ \E p \in Passes : p # 1 /\ LinkRequestsOf(p) # {}
    /\ Cardinality(LinkRequestsOf(1)) = 2
    /\ BagCardinality(tx_reporter) >= 2
    /\ tx_recursion # EmptyBag
    /\ tx_stats # EmptyBag

-----------------------------------------------------------------------------
(* C19, C20 *)

\* C19: a file response is on the reporting channel only after its url was
\* registered with add_file_scan: the url of every report sent, and of the report
\* a pass is about to send, is in the ledger.
C19_RegisteredBeforeReported ==
    /\ \A m \in BagToSet(tx_reporter) : m.url \in scanned_urls
    /\ \A p \in Passes : pc[p] = "report" => resp[p].url \in scanned_urls

\* a pass has registered the file /a/b and not yet reported it, while the report
\* of another pass for the same url is on the channel
C19_Witness ==
    \E p \in Passes :
        /\ pc[p] = "report"
        /\ resp[p].url = DirA \o <<"b">>
        /\ resp[p].url \in scanned_urls
        /\ resp[p] \notin BagToSet(tx_reporter)
        /\ \E m \in BagToSet(tx_reporter) : m.pass # p /\ m.url = resp[p].url

\* the urls requests were issued for by pass p
RequestedBy(p) == {q.url : q \in LinkRequestsOf(p)}

\* C20: the slash correction changes nothing else: a response handed to the
\* recursion step whose url ends in '/', or whose status is neither 2xx nor 403,
\* has the url it was probed with; a file is reported and registered under the
\* url it was requested with, and a filtered response is handed nowhere.
C20_CorrectionTouchesNothingElse ==
    /\ \A c \in BagToSet(recursed) :
          /\ c.probed \in RequestedBy(c.pass)
          /\ (EndsWith(c.probed, SLASH) \/ ~(c.status \in 200..299 \/ c.status = 403)) =>
                c.url = c.probed
          /\ c.kind = "directory"
    /\ \A m \in BagToSet(tx_reporter) : m.kind = "file" /\ m.url \in RequestedBy(m.pass)
    /\ \A u \in scanned_urls : u = DirA \/ \E p \in Passes : u \in RequestedBy(p)

\* a 404 answer for /a/b and a 200 answer for a url ending in '/' reached the
\* recursion step with their urls as probed, and a file was reported
C20_Witness ==
    /\ \E c \in BagToSet(recursed) :
          c.status = 404 /\ c.probed = DirA \o <<"b">> /\ c.url = c.probed
    /\ \E c \in BagToSet(recursed) :
          c.status = 200 /\ EndsWith(c.probed, SLASH) /\ c.url = c.probed
    /\ tx_reporter # EmptyBag

-----------------------------------------------------------------------------
(* C3 *)

\* number of maximal runs of non-'/' characters of s
NumSegments(s) ==
    Cardinality({i \in 1..Len(s) : s[i] # SLASH /\ (i = 1 \/ s[i - 1] = SLASH)})

\* s[i] is a '/' that separates two segments: the first '/' after a segment,
\* with a segment still to come
IsSeparator(s, i) ==
    /\ s[i] = SLASH
    /\ i > 1 /\ s[i - 1] # SLASH
    /\ \E j \in (i + 1)..Len(s) : s[j] # SLASH

RECURSIVE KeepFrom(_, _)
\* s from position i on, without leading, trailing and repeated slashes
KeepFrom(s, i) ==
    IF i > Len(s) THEN <<>>
    ELSE IF s[i] # SLASH \/ IsSeparator(s, i) THEN <<s[i]>> \o KeepFrom(s, i + 1)
    ELSE KeepFrom(s, i + 1)

Trimmed(s) == KeepFrom(s, 1)

\* C3: a fragment with k non-empty segments yields exactly k entries; the first
\* is the segments rejoined with '/', without a trailing slash; entries 2..k are
\* strictly shorter prefixes of it in decreasing length, each ending in '/' and
\* holding one segment less than the entry before; "" and "/" yield nothing.
C3_SubPaths ==
    fn_pc = "ret" =>
        LET k == NumSegments(path)
        IN  /\ Len(paths) = k
            /\ k > 0 => /\ paths[1] = Trimmed(path)
                        /\ ~EndsWith(paths[1], SLASH)
            /\ \A j \in 2..k :
                  /\ EndsWith(paths[j], SLASH)
                  /\ Len(paths[j]) < Len(paths[j - 1])
                  /\ StartsWith(paths[1], paths[j])
                  /\ NumSegments(paths[j]) = k - j + 1
            /\ (path = <<>> \/ path = <<SLASH>>) => paths = <<>>

\* a fragment with three segments and slashes to discard has been expanded
C3_Witness ==
    /\ fn_pc = "ret"
    /\ path = <<"a", SLASH, SLASH, "b", SLASH, "a">>
    /\ paths = << <<"a", SLASH, "b", SLASH, "a">>, <<"a", SLASH, "b", SLASH>>, <<"a", SLASH>> >>

====
